---- MODULE Spec2Model ----
(***************************************************************************)
(* optimize-image: the optimize-and-replace pipeline of optimg/main.py.   *)
(* One process of the model is one invocation of cli(): __init__ followed *)
(* by run().  The filesystem (files, their extended attribute, the lock   *)
(* file) and the wall clock are shared by the processes.                  *)
(*                                                                         *)
(* Time is counted in ticks, Res ticks to the second, so that the         *)
(* sub-second part of time() and of st_mtime is visible.                  *)
(***************************************************************************)
EXTENDS Integers, Sequences, FiniteSets, TLC

\* ------------------------------------------------------------------ bounds
\* Clock ticks per second.
Res == 4
\* Ticks the wall clock advances during the runs.
Span == 1
\* Size in bytes of every image before the first run, and the largest
\* payload a compressor returns.
InitSize == 2
MaxSize == 3

\* ------------------------------------------------------------ the universe
\* The invocations of cli(), in the order they are started.
Order == <<"p1", "p2">>
Procs == {Order[k] : k \in 1..Len(Order)}
\* The wall clock when the first one starts (a whole second), and its last
\* reading.
StartNow == 2 * Res
MaxNow == StartNow + Span
\* The candidate stream of walkdir.file_paths, in traversal order.
Paths == <<"a.jpg", "my pics/b.jpg">>
Files == {Paths[k] : k \in 1..Len(Paths)}

\* A string as the sequence of its pieces: a piece is one whitespace
\* character or a run of other characters.  str(path) of each candidate:
Text == [f \in Files |->
           IF f = "a.jpg" THEN <<"a.jpg">> ELSE <<"my", " ", "pics/b.jpg">>]
Whitespace == {" "}
\* The values of --compressor and --compressor-args where they are given;
\* "{image}" is the replacement field of the template.
Compressor == <<"/usr/bin/guetzli">>
Template == <<"--quality", " ", "85", " ", "{image}">>

\* Python's None and an Optional value.
None == <<>>
Some(v) == <<v>>

\* bool(x) of an Optional[int]: None and 0 are both false.
Truthy(x) == x # None /\ x[1] # 0

\* File type bits of st_mode for a regular file (S_IFREG), and the bits
\* chmod(2) keeps of its argument (07777 + 1).
S_IFREG == 32768
ModeBits == 4096

\* What the run finds at the path of each image.
\*   xkind/xsecs: the user.optimized_at attribute: "absent", "text" (the
\*   decimal text of xsecs, as set_optimized_at writes it) or "garbage"
\*   (bytes float() does not parse).
FileOf(size, mtime, uid, gid, mode, xkind, xsecs) ==
    [size |-> size, mtime |-> mtime, uid |-> uid, gid |-> gid, mode |-> mode,
     xkind |-> xkind, xsecs |-> xsecs]

\* ------------------------------------------------------- pure functions
\* '%3.f' % t: no digits after the point, i.e. t rounded to whole seconds
\* (ties to even, as the C library rounds an exactly representable half).
FormatMarker(t) ==
    LET q == t \div Res
        r == t % Res
    IN  IF 2 * r < Res THEN q
        ELSE IF 2 * r > Res THEN q + 1
        ELSE IF q % 2 = 0 THEN q ELSE q + 1

\* float(text) of a stored marker, in ticks.
ParseMarker(secs) == secs * Res

\* to_mode: int(value, 8) within [0, 0o777]; the model's values are the
\* parsed integers.
ValidMode(m) == m >= 0 /\ m <= 511

ShouldSkipStrict(force, optimized_at, st_mtime) ==
    ~force /\ optimized_at > st_mtime

\* Line 172: the skip test.
ShouldSkip(force, optimized_at, st_mtime) ==
    ~force /\ optimized_at >= st_mtime

NoGainStrict(st_size, size_after) == st_size < size_after

\* Line 187: the no-gain test.
NoGain(st_size, size_after) == st_size <= size_after

\* Lines 194-196: the override, or the value of the stat snapshot.
Resolve(override, original) ==
    IF Truthy(override) THEN override[1] ELSE original

ExpiredInverted(maxTime, t) == Truthy(maxTime) /\ t < maxTime[1]

\* Line 166: the budget test.
Expired(maxTime, t) == Truthy(maxTime) /\ t > maxTime[1]

\* Lines 72-73: the deadline, in ticks.
Deadline(minutes, t) ==
    IF minutes = None THEN None ELSE Some(t + minutes[1] * 60 * Res)

\* Line 139: template.format(image=path), the replacement field replaced by
\* str(path).
RECURSIVE Format(_, _)
Format(template, image) ==
    IF template = <<>> THEN <<>>
    ELSE (IF Head(template) = "{image}" THEN image ELSE <<Head(template)>>)
         \o Format(Tail(template), image)

\* str.split() without separator: the maximal runs of non-whitespace.
\* `word` is the run being read, `words` the runs read so far.
RECURSIVE SplitWords(_, _, _)
SplitWords(s, word, words) ==
    LET closed == IF word = <<>> THEN words ELSE Append(words, word)
    IN  IF s = <<>> THEN closed
        ELSE IF Head(s) \in Whitespace
             THEN SplitWords(Tail(s), <<>>, closed)
             ELSE SplitWords(Tail(s), Append(word, Head(s)), words)

Split(s) == SplitWords(s, <<>>, <<>>)

\* Lines 138-139: the argument list handed to subprocess.check_output.
CommandLine(compressor, compressor_args, path) ==
    <<compressor>> \o Split(Format(compressor_args, Text[path]))

\* ------------------------------------------------------------------ state
VARIABLES
    now,                \* time(), in ticks
    lock,               \* holder of /var/lock/optimize-image, or "free"
    cfg,                \* the parsed command line (args of __init__)
    fs,                 \* path -> the file found there
    tmp,                \* process -> the temporary file of atomic_write
    pc,                 \* process -> its position in cli(); after a
                        \* candidate is decided, the outcome it logs
    max_time,           \* self.max_time
    idx,                \* position of the for loop in Paths
    stat,               \* stat, the snapshot of line 170
    optimized_at,       \* optimized_at, line 171
    argv,               \* the argument list of check_output, line 138
    output,             \* len(output), line 186
    resolved,           \* uid, gid, mode of lines 194-196
    total_size_before,
    total_size_after

vars == <<now, lock, cfg, fs, tmp, pc, max_time, idx, stat, optimized_at,
          argv, output, resolved, total_size_before, total_size_after>>

locals == <<max_time, idx, stat, optimized_at, argv, output, resolved,
            total_size_before, total_size_after>>

NoStat == [st_size |-> 0, st_mtime |-> 0, st_uid |-> 0, st_gid |-> 0,
           st_mode |-> 0]
NoMeta == [uid |-> 0, gid |-> 0, mode |-> 0]

\* The temporary file as mkstemp creates it: owned by the caller, 0600.
NewTemp(size) == [size |-> size, uid |-> 0, gid |-> 0, mode |-> 384]

\* --------------------------------------------------------- configurations
Overrides == {None, Some(0), Some(33)}
ModeOverrides == {m \in {None, Some(0), Some(416)} : m = None \/ ValidMode(m[1])}
Budgets == {None, Some(0)}
\* compressor/compressor_args as parsed, and whether the binary exists.
Compressors ==
    { [compressor |-> FALSE, args |-> FALSE, exists |-> FALSE],
      [compressor |-> TRUE,  args |-> TRUE,  exists |-> TRUE],
      [compressor |-> TRUE,  args |-> TRUE,  exists |-> FALSE],
      [compressor |-> TRUE,  args |-> FALSE, exists |-> TRUE] }

AllConfigs ==
    [force : BOOLEAN, owner : Overrides, group : Overrides,
     mode : ModeOverrides, budget : Budgets, tool : Compressors]

\* Lines 194-196 are the only readers of owner, group and mode, and read
\* nothing else of the command line: the overrides vary with the other
\* options at their defaults, and the other options vary without overrides.
NoOverride(c) == c.owner = None /\ c.group = None /\ c.mode = None
Defaults(c) == ~c.force /\ c.budget = None /\ ~c.tool.compressor
Configs == {c \in AllConfigs : NoOverride(c) \/ Defaults(c)}

\* The images before the first run: never processed, never processed and
\* dated at the epoch, processed and untouched since, processed and modified
\* since, or carrying an attribute this program did not write.
OldMtime == StartNow - 3
NeverProcessed == FileOf(InitSize, OldMtime, 1000, 100, 420, "absent", 0)
InitFiles ==
    { NeverProcessed,
      FileOf(InitSize, 0, 1000, 100, 420, "absent", 0),
      FileOf(InitSize, OldMtime, 1000, 100, 420, "text", FormatMarker(StartNow)),
      FileOf(InitSize, OldMtime, 1000, 100, 420, "text", FormatMarker(OldMtime) - 1),
      FileOf(InitSize, OldMtime, 1000, 100, 420, "garbage", 0) }

Init ==
    /\ now = StartNow
    /\ lock = "free"
    /\ cfg \in Configs
    /\ fs \in [Files -> InitFiles]
    /\ NoOverride(cfg) \/ fs = [f \in Files |-> NeverProcessed]
    /\ tmp = [p \in Procs |-> None]
    /\ pc = [p \in Procs |-> "off"]
    /\ max_time = [p \in Procs |-> None]
    /\ idx = [p \in Procs |-> 0]
    /\ stat = [p \in Procs |-> NoStat]
    /\ optimized_at = [p \in Procs |-> 0]
    /\ argv = [p \in Procs |-> <<>>]
    /\ output = [p \in Procs |-> 0]
    /\ resolved = [p \in Procs |-> NoMeta]
    /\ total_size_before = [p \in Procs |-> 0]
    /\ total_size_after = [p \in Procs |-> 0]

\* The outcomes run() logs for a candidate; "skipping: <call>" is the warning
\* of line 210, which names the call that raised.
WriterErrors == {"skipping: open", "skipping: chown", "skipping: chmod",
                 "skipping: rename", "skipping: xattr"}
Outcomes == {"skip", "failed", "nogain", "improved"} \cup WriterErrors

\* The positions at which cli() is over: run() returned after the loop,
\* returned before it, or was left by an exception nothing catches.
Uncaught == {"stat: FileNotFoundError", "get_optimized_at: ValueError",
             "set_optimized_at: OSError"}
Terminal == {"done", "aborted"} \cup Uncaught

\* ----------------------------------------------------------------- helpers
\* The candidate of the current iteration.
Cand(p) == Paths[idx[p]]

\* img.stat(): st_mode carries the file type with the permission bits.
StatOf(file) ==
    [st_size |-> file.size, st_mtime |-> file.mtime, st_uid |-> file.uid,
     st_gid |-> file.gid, st_mode |-> S_IFREG + file.mode]

\* get_optimized_at where xattr.get succeeds: float() of the stored text.
\* (float() of garbage raises ValueError: see MarkerUnparsable.)
GetOptimizedAt(file) ==
    IF file.xkind = "text" THEN Some(ParseMarker(file.xsecs)) ELSE None

\* `x or 0`, line 171.
OrZero(x) == IF Truthy(x) THEN x[1] ELSE 0

\* set_optimized_at: the attribute after xattr.set of '%3.f' % time().
SetOptimizedAt(file, t) ==
    [file EXCEPT !.xkind = "text", !.xsecs = FormatMarker(t)]

\* An exception leaves run(): the interpreter prints its traceback and the
\* process is over; what it had in memory is gone.
Escapes(p, exception) ==
    /\ pc' = [pc EXCEPT ![p] = exception]
    /\ max_time' = [max_time EXCEPT ![p] = None]
    /\ idx' = [idx EXCEPT ![p] = 0]
    /\ stat' = [stat EXCEPT ![p] = NoStat]
    /\ optimized_at' = [optimized_at EXCEPT ![p] = 0]
    /\ argv' = [argv EXCEPT ![p] = <<>>]
    /\ output' = [output EXCEPT ![p] = 0]
    /\ resolved' = [resolved EXCEPT ![p] = NoMeta]
    /\ total_size_before' = [total_size_before EXCEPT ![p] = 0]
    /\ total_size_after' = [total_size_after EXCEPT ![p] = 0]

\* The outcome of the candidate is logged (lines 173, 181, 189, 205, 210).
Logged(p, outcome) ==
    /\ pc' = [pc EXCEPT ![p] = outcome]
    /\ UNCHANGED idx

\* compress(), lines 133-139: with an external compressor whose template is
\* given, the argument list is built and handed to check_output; the
\* internal compressor runs no command, and a template of None raises before
\* there is a list.
Compress(p) ==
    argv' = [argv EXCEPT ![p] =
               IF cfg.tool.compressor /\ cfg.tool.args
               THEN CommandLine(Compressor, Template, Cand(p))
               ELSE <<>>]

\* ----------------------------------------------------------------- actions
\* __init__, lines 63-74.
Construct(p) ==
    /\ pc[p] = "off"
    /\ \A k \in 1..Len(Order) :
         Order[k] = p => \A j \in 1..(k - 1) : pc[Order[j]] # "off"
    /\ pc' = [pc EXCEPT ![p] = "new"]
    /\ max_time' = [max_time EXCEPT ![p] = Deadline(cfg.budget, now)]
    /\ UNCHANGED <<now, lock, cfg, fs, tmp, idx, stat, optimized_at, argv,
                   output, resolved, total_size_before, total_size_after>>

AcquireUnchecked(p) ==
    /\ pc[p] = "new"
    /\ lock' = p
    /\ pc' = [pc EXCEPT ![p] = "locked"]
    /\ UNCHANGED <<now, cfg, fs, tmp, locals>>

\* Lines 143-147: lock.acquire(blocking=False).
Acquire(p) ==
    /\ pc[p] = "new"
    /\ IF lock = "free"
       THEN lock' = p /\ pc' = [pc EXCEPT ![p] = "locked"]
       ELSE lock' = lock /\ pc' = [pc EXCEPT ![p] = "aborted"]
    /\ UNCHANGED <<now, cfg, fs, tmp, locals>>

CheckCompressorUnchecked(p) ==
    /\ pc[p] = "locked"
    /\ pc' = [pc EXCEPT ![p] = "loop"]
    /\ idx' = [idx EXCEPT ![p] = 1]
    /\ total_size_before' = [total_size_before EXCEPT ![p] = 0]
    /\ total_size_after' = [total_size_after EXCEPT ![p] = 0]
    /\ UNCHANGED <<now, lock, cfg, fs, tmp, max_time, stat, optimized_at,
                   argv, output, resolved>>

\* Lines 149-163: the compressor binary is looked up, the totals start at 0
\* and the traversal is set up.
CheckCompressor(p) ==
    /\ pc[p] = "locked"
    /\ IF cfg.tool.compressor /\ ~cfg.tool.exists
       THEN /\ pc' = [pc EXCEPT ![p] = "aborted"]
            /\ UNCHANGED <<idx, total_size_before, total_size_after>>
       ELSE /\ pc' = [pc EXCEPT ![p] = "loop"]
            /\ idx' = [idx EXCEPT ![p] = 1]
            /\ total_size_before' = [total_size_before EXCEPT ![p] = 0]
            /\ total_size_after' = [total_size_after EXCEPT ![p] = 0]
    /\ UNCHANGED <<now, lock, cfg, fs, tmp, max_time, stat, optimized_at,
                   argv, output, resolved>>

\* Lines 165, 213-219: the traversal is exhausted.
Finish(p) ==
    /\ pc[p] = "loop"
    /\ idx[p] > Len(Paths)
    /\ pc' = [pc EXCEPT ![p] = "done"]
    /\ UNCHANGED <<now, lock, cfg, fs, tmp, locals>>

\* Lines 166-168: the budget is spent, break.
BudgetBreak(p) ==
    /\ pc[p] = "loop"
    /\ idx[p] <= Len(Paths)
    /\ Expired(max_time[p], now)
    /\ pc' = [pc EXCEPT ![p] = "done"]
    /\ UNCHANGED <<now, lock, cfg, fs, tmp, locals>>

\* Line 170: img.stat() raises (the path is gone, or a dangling link);
\* nothing in run() catches it.
StatFails(p) ==
    /\ pc[p] = "loop"
    /\ idx[p] <= Len(Paths)
    /\ ~Expired(max_time[p], now)
    /\ Escapes(p, "stat: FileNotFoundError")
    /\ UNCHANGED <<now, lock, cfg, fs, tmp>>

\* Lines 123-125: float() of a stored value that is no number raises
\* ValueError, which get_optimized_at does not catch, nor run().
MarkerUnparsable(p) ==
    /\ pc[p] = "loop"
    /\ idx[p] <= Len(Paths)
    /\ ~Expired(max_time[p], now)
    /\ fs[Cand(p)].xkind = "garbage"
    /\ Escapes(p, "get_optimized_at: ValueError")
    /\ UNCHANGED <<now, lock, cfg, fs, tmp>>

\* Lines 169-177: the snapshot, the marker and the decision to skip or to
\* compress.  xattr.get either succeeds or raises OSError (no attribute, no
\* permission, no support), which reads as None.
Decide(p) ==
    /\ pc[p] = "loop"
    /\ idx[p] <= Len(Paths)
    /\ ~Expired(max_time[p], now)
    /\ LET file == fs[Cand(p)]
           st == StatOf(file)
       IN  \E got \in {None} \cup (IF file.xkind = "garbage" THEN {}
                                   ELSE {GetOptimizedAt(file)}) :
             /\ stat' = [stat EXCEPT ![p] = st]
             /\ optimized_at' = [optimized_at EXCEPT ![p] = OrZero(got)]
             /\ IF ShouldSkip(cfg.force, OrZero(got), st.st_mtime)
                THEN /\ Logged(p, "skip")
                     /\ UNCHANGED total_size_before
                ELSE /\ pc' = [pc EXCEPT ![p] = "compress"]
                     /\ total_size_before' =
                            [total_size_before EXCEPT ![p] = @ + st.st_size]
                     /\ UNCHANGED idx
    /\ UNCHANGED <<now, lock, cfg, fs, tmp, max_time, argv, output, resolved,
                   total_size_after>>

\* Lines 178-185: compress() raises (always, when compressor_args is None:
\* None has no format).  The original size counts as the size after, then the
\* marker is set, outside any try.
CompressFails(p) ==
    /\ pc[p] = "compress"
    /\ \E marked \in BOOLEAN :
         IF marked
         THEN /\ total_size_after' =
                     [total_size_after EXCEPT ![p] = @ + stat[p].st_size]
              /\ fs' = [fs EXCEPT ![Cand(p)] = SetOptimizedAt(@, now)]
              /\ Compress(p)
              /\ Logged(p, "failed")
              /\ UNCHANGED <<max_time, stat, optimized_at, output, resolved,
                             total_size_before>>
         ELSE /\ Escapes(p, "set_optimized_at: OSError")
              /\ UNCHANGED fs
    /\ UNCHANGED <<now, lock, cfg, tmp>>

\* The payloads a configured compressor can return.
Payloads == IF cfg.tool.compressor /\ ~cfg.tool.args THEN {} ELSE 0..MaxSize

\* Lines 179, 186-193: a payload that is no smaller.  The marker is set,
\* outside any try, before the total is updated.
CompressNoGain(p) ==
    /\ pc[p] = "compress"
    /\ \E n \in Payloads, marked \in BOOLEAN :
         /\ NoGain(stat[p].st_size, n)
         /\ IF marked
            THEN /\ Compress(p)
                 /\ output' = [output EXCEPT ![p] = n]
                 /\ fs' = [fs EXCEPT ![Cand(p)] = SetOptimizedAt(@, now)]
                 /\ total_size_after' =
                        [total_size_after EXCEPT ![p] = @ + stat[p].st_size]
                 /\ Logged(p, "nogain")
                 /\ UNCHANGED <<max_time, stat, optimized_at, resolved,
                                total_size_before>>
            ELSE /\ Escapes(p, "set_optimized_at: OSError")
                 /\ UNCHANGED fs
    /\ UNCHANGED <<now, lock, cfg, tmp>>

\* Lines 179, 186-196: a smaller payload; owner, group and mode are resolved.
CompressImproves(p) ==
    /\ pc[p] = "compress"
    /\ \E n \in Payloads :
         /\ ~NoGain(stat[p].st_size, n)
         /\ output' = [output EXCEPT ![p] = n]
    /\ Compress(p)
    /\ resolved' = [resolved EXCEPT ![p] =
                       [uid |-> Resolve(cfg.owner, stat[p].st_uid),
                        gid |-> Resolve(cfg.group, stat[p].st_gid),
                        mode |-> Resolve(cfg.mode, stat[p].st_mode)]]
    /\ pc' = [pc EXCEPT ![p] = "write"]
    /\ UNCHANGED <<now, lock, cfg, fs, tmp, max_time, idx, stat, optimized_at,
                   total_size_before, total_size_after>>

\* atomic_write leaves the with block by an exception: the temporary file is
\* unlinked and the target is as it was.
Rollback(p) ==
    /\ tmp' = [tmp EXCEPT ![p] = None]
    /\ UNCHANGED fs

\* Lines 209-211: except OSError; the warning names the call that failed.
WriterFails(p, call) ==
    /\ total_size_after' = [total_size_after EXCEPT ![p] = @ + stat[p].st_size]
    /\ Logged(p, call)
    /\ UNCHANGED <<now, lock, cfg, max_time, stat, optimized_at, argv, output,
                   resolved, total_size_before>>

\* Lines 198-199: the temporary file is created beside the target and the
\* payload written to it.
WriteTemp(p) ==
    /\ pc[p] = "write"
    /\ \/ /\ tmp' = [tmp EXCEPT ![p] = Some(NewTemp(output[p]))]
          /\ pc' = [pc EXCEPT ![p] = "chown"]
          /\ UNCHANGED <<now, lock, cfg, fs, locals>>
       \/ /\ Rollback(p)
          /\ WriterFails(p, "skipping: open")

ChownTarget(p) ==
    /\ pc[p] = "chown"
    /\ \/ /\ fs' = [fs EXCEPT ![Cand(p)].uid = resolved[p].uid,
                              ![Cand(p)].gid = resolved[p].gid]
          /\ pc' = [pc EXCEPT ![p] = "chmod"]
          /\ UNCHANGED <<now, lock, cfg, tmp, locals>>
       \/ /\ Rollback(p)
          /\ WriterFails(p, "skipping: chown")

\* Line 201: os.chown(f.name, uid, gid).
Chown(p) ==
    /\ pc[p] = "chown"
    /\ \/ /\ tmp' = [tmp EXCEPT ![p] = Some([@[1] EXCEPT
                         !.uid = resolved[p].uid, !.gid = resolved[p].gid])]
          /\ pc' = [pc EXCEPT ![p] = "chmod"]
          /\ UNCHANGED <<now, lock, cfg, fs, locals>>
       \/ /\ Rollback(p)
          /\ WriterFails(p, "skipping: chown")

\* Line 202: os.chmod(f.name, mode); the kernel keeps the permission bits.
Chmod(p) ==
    /\ pc[p] = "chmod"
    /\ \/ /\ tmp' = [tmp EXCEPT ![p] = Some([@[1] EXCEPT
                         !.mode = resolved[p].mode % ModeBits])]
          /\ pc' = [pc EXCEPT ![p] = "commit"]
          /\ UNCHANGED <<now, lock, cfg, fs, locals>>
       \/ /\ Rollback(p)
          /\ WriterFails(p, "skipping: chmod")

\* The file at the target path after rename(temporary, target): the
\* temporary file's inode, which carries no user.optimized_at.
Renamed(t, mtime) ==
    FileOf(t.size, mtime, t.uid, t.gid, t.mode, "absent", 0)

\* Line 198, leaving the with block: the payload is flushed (which dates the
\* file) and the temporary file renamed over the target.
Commit(p) ==
    /\ pc[p] = "commit"
    /\ \/ /\ fs' = [fs EXCEPT ![Cand(p)] = Renamed(tmp[p][1], now)]
          /\ tmp' = [tmp EXCEPT ![p] = None]
          /\ pc' = [pc EXCEPT ![p] = "mark"]
          /\ UNCHANGED <<now, lock, cfg, locals>>
       \/ /\ Rollback(p)
          /\ WriterFails(p, "skipping: rename")

\* Lines 204-208: the marker of the new file and the new size; an OSError of
\* xattr.set is caught by line 209 like a failure of the writer.
Mark(p) ==
    /\ pc[p] = "mark"
    /\ \/ /\ fs' = [fs EXCEPT ![Cand(p)] = SetOptimizedAt(@, now)]
          /\ total_size_after' =
                 [total_size_after EXCEPT ![p] = @ + output[p]]
          /\ Logged(p, "improved")
          /\ UNCHANGED <<now, lock, cfg, tmp, max_time, stat, optimized_at,
                         argv, output, resolved, total_size_before>>
       \/ /\ WriterFails(p, "skipping: xattr")
          /\ UNCHANGED <<fs, tmp>>

\* Lines 174, 185, 193 and the end of the loop body: the next path; the
\* argument list of the iteration is garbage.
NextCandidate(p) ==
    /\ pc[p] \in Outcomes
    /\ pc' = [pc EXCEPT ![p] = "loop"]
    /\ idx' = [idx EXCEPT ![p] = @ + 1]
    /\ argv' = [argv EXCEPT ![p] = <<>>]
    /\ UNCHANGED <<now, lock, cfg, fs, tmp, max_time, stat, optimized_at,
                   output, resolved, total_size_before, total_size_after>>

\* cli() returns or the interpreter dies: the process ends, the lock file is
\* closed and with it the lock released.
Exit(p) ==
    /\ pc[p] \in Terminal
    /\ pc' = [pc EXCEPT ![p] = "exited"]
    /\ lock' = IF lock = p THEN "free" ELSE lock
    /\ max_time' = [max_time EXCEPT ![p] = None]
    /\ idx' = [idx EXCEPT ![p] = 0]
    /\ stat' = [stat EXCEPT ![p] = NoStat]
    /\ optimized_at' = [optimized_at EXCEPT ![p] = 0]
    /\ argv' = [argv EXCEPT ![p] = <<>>]
    /\ output' = [output EXCEPT ![p] = 0]
    /\ resolved' = [resolved EXCEPT ![p] = NoMeta]
    /\ total_size_before' = [total_size_before EXCEPT ![p] = 0]
    /\ total_size_after' = [total_size_after EXCEPT ![p] = 0]
    /\ UNCHANGED <<now, cfg, fs, tmp>>

\* The wall clock advances.
Tick ==
    /\ now < MaxNow
    /\ now' = now + 1
    /\ UNCHANGED <<lock, cfg, fs, tmp, pc, locals>>

Next ==
    \/ Tick
    \/ \E p \in Procs :
         \/ Construct(p)
         \/ Acquire(p)
         \/ CheckCompressor(p)
         \/ Finish(p)
         \/ BudgetBreak(p)
         \/ StatFails(p)
         \/ MarkerUnparsable(p)
         \/ Decide(p)
         \/ CompressFails(p)
         \/ CompressNoGain(p)
         \/ CompressImproves(p)
         \/ WriteTemp(p)
         \/ Chown(p)
         \/ Chmod(p)
         \/ Commit(p)
         \/ Mark(p)
         \/ NextCandidate(p)
         \/ Exit(p)

Spec == Init /\ [][Next]_vars

\* The steps of cli() once the process exists: every call it makes returns,
\* with a result or an exception, so a process that can step does.
Run(p) ==
    \/ Acquire(p)
    \/ CheckCompressor(p)
    \/ Finish(p)
    \/ BudgetBreak(p)
    \/ StatFails(p)
    \/ MarkerUnparsable(p)
    \/ Decide(p)
    \/ CompressFails(p)
    \/ CompressNoGain(p)
    \/ CompressImproves(p)
    \/ WriteTemp(p)
    \/ Chown(p)
    \/ Chmod(p)
    \/ Commit(p)
    \/ Mark(p)
    \/ NextCandidate(p)
    \/ Exit(p)

FairSpec == Spec /\ \A p \in Procs : WF_vars(Run(p))

\* ------------------------------------------------------------------ claims
InRange(p) == idx[p] \in 1..Len(Paths)
\* The content and the metadata of a file, the marker apart.
Whole(file) == <<file.size, file.mtime, file.uid, file.gid, file.mode>>
\* The process logs `outcome` for its candidate in this step.
Logs(p, outcome) == pc[p] # outcome /\ pc'[p] = outcome
\* The steps of run() that work on a candidate.
Working == {"compress", "write", "chown", "chmod", "commit", "mark"}
Active == {"locked", "loop"} \cup Working \cup Outcomes

\* C1 (as claimed): a file a run without force has rewritten, found no-gain or
\* found compress-failed is left with a marker that makes the next run
\* without force, on the untouched file, classify it skip.
C1_Idempotence ==
    [][\A p \in Procs :
         (/\ ~cfg.force
          /\ InRange(p)
          /\ \E o \in {"failed", "nogain", "improved"} : Logs(p, o))
         => LET file == fs'[Cand(p)]
            IN  ShouldSkip(FALSE, OrZero(GetOptimizedAt(file)),
                           StatOf(file).st_mtime)]_vars

\* C2: the content at a path changes only by a payload strictly smaller than
\* the size of the snapshot; a payload of the same size or larger never
\* replaces it.
C2_NonGrowth ==
    [][\A f \in Files :
         <<fs'[f].size, fs'[f].mtime>> # <<fs[f].size, fs[f].mtime>>
         => \E p \in Procs :
              /\ InRange(p) /\ Cand(p) = f
              /\ fs'[f].size = output[p]
              /\ output[p] < stat[p].st_size
              /\ stat[p].st_size = fs[f].size]_vars

\* C2, its case: a file has just been replaced by a smaller payload.
C2_Rewritten ==
    \E p \in Procs :
      /\ pc[p] = "mark"
      /\ fs[Cand(p)].size = output[p]
      /\ output[p] < stat[p].st_size

\* C3: when chown or chmod of the temporary file fails, the target keeps its
\* content and metadata and the temporary file is gone; and whenever the
\* content or metadata at a path changes at all, it changes in one step to
\* the whole payload with the resolved owner, group and mode.
C3_Atomicity ==
    [][/\ \A p \in Procs :
            (pc[p] \in {"chown", "chmod"} /\ pc'[p] \in WriterErrors)
            => (fs' = fs /\ tmp'[p] = None)
       /\ \A f \in Files :
            Whole(fs'[f]) # Whole(fs[f])
            => \E p \in Procs :
                 /\ InRange(p) /\ Cand(p) = f
                 /\ fs'[f].size = output[p]
                 /\ fs'[f].uid = resolved[p].uid
                 /\ fs'[f].gid = resolved[p].gid
                 /\ fs'[f].mode = resolved[p].mode % ModeBits]_vars

\* C3, its case: chown or chmod failed after the payload was written, and the
\* file is still the one of the snapshot.
C3_MetadataFailed ==
    \E p \in Procs :
      /\ pc[p] \in {"skipping: chown", "skipping: chmod"}
      /\ tmp[p] = None
      /\ StatOf(fs[Cand(p)]) = stat[p]

\* The value the claim gives a rewritten file: the configured one, whatever
\* it is, else the one of the snapshot.
Configured(override, original) ==
    IF override # None THEN override[1] ELSE original

\* C4 (as claimed): a rewritten file has the configured owner, group and
\* mode, uid 0, gid 0 and mode 0 included, and the snapshot's where none is
\* configured.
C4_OverridePrecedence ==
    \A p \in Procs :
      pc[p] = "mark"
      => /\ fs[Cand(p)].uid = Configured(cfg.owner, stat[p].st_uid)
         /\ fs[Cand(p)].gid = Configured(cfg.group, stat[p].st_gid)
         /\ fs[Cand(p)].mode =
                Configured(cfg.mode, stat[p].st_mode % ModeBits)

\* The loop takes a candidate in hand in this step: it leaves the loop head
\* other than by ending the run.
Starts(p) ==
    /\ pc[p] = "loop"
    /\ pc'[p] \notin {"loop", "done"}

\* C5 (as claimed): no candidate goes to the compressor once the clock has
\* reached the deadline; with a budget of 0 that is no candidate at all.
C5_BudgetReached ==
    [][\A p \in Procs :
         (pc[p] = "loop" /\ pc'[p] = "compress")
         => ~(max_time[p] # None /\ now >= max_time[p][1])]_vars

\* C5 (amended): no candidate is started once the clock has passed the
\* deadline, and a run ends by its budget at the loop head only: the
\* candidate in hand is completed.
C5_BudgetExceeded ==
    [][\A p \in Procs :
         /\ Starts(p) => ~(max_time[p] # None /\ now > max_time[p][1])
         /\ (pc'[p] = "done" /\ pc[p] # "done") => pc[p] = "loop"]_vars

\* C5, its case: a run with a budget of 0 completed the candidate it had in
\* hand and ended, past its deadline, before the next one.
C5_BudgetStops ==
    \E p \in Procs :
      /\ cfg.budget = Some(0)
      /\ pc[p] = "done"
      /\ idx[p] = 2
      /\ now > max_time[p][1]

\* C6: without force, a marker read at or after the modification time of
\* the snapshot makes the candidate a skip; and a skip changes no file, no
\* marker and neither total, and leads to the next path without compressing.
C6_SkipFrame ==
    [][\A p \in Procs :
         /\ (/\ pc[p] = "loop" /\ pc'[p] \in {"skip", "compress"}
             /\ ~cfg.force
             /\ optimized_at'[p] >= stat'[p].st_mtime)
            => Logs(p, "skip")
         /\ (Logs(p, "skip") \/ (pc[p] = "skip" /\ pc'[p] # "skip"))
            => /\ fs' = fs /\ tmp' = tmp
               /\ total_size_before'[p] = total_size_before[p]
               /\ total_size_after'[p] = total_size_after[p]
         /\ (pc[p] = "skip" /\ pc'[p] # "skip")
            => (pc'[p] = "loop" /\ idx'[p] = idx[p] + 1)]_vars

\* C6, its case: a candidate with a marker at or after its modification time
\* has been skipped.
C6_Skipped ==
    \E p \in Procs :
      /\ pc[p] = "skip"
      /\ ~cfg.force
      /\ fs[Cand(p)].xkind = "text"
      /\ optimized_at[p] = ParseMarker(fs[Cand(p)].xsecs)
      /\ optimized_at[p] >= stat[p].st_mtime

\* C7: at most one process is between acquiring the lock and the end of its
\* run; a process that finds the lock taken ends at once, having started no
\* compression and changed no file, marker or temporary file.
C7_SingleInstance ==
    /\ [](Cardinality({p \in Procs : pc[p] \in Active}) <= 1)
    /\ [][\A p \in Procs :
            (pc[p] = "new" /\ lock # "free" /\ pc'[p] # "new")
            => /\ pc'[p] = "aborted"
               /\ fs' = fs /\ tmp' = tmp /\ lock' = lock]_vars
    /\ [](\A p \in Procs :
            (pc[p] = "aborted" /\ lock # p)
            => /\ idx[p] = 0 /\ stat[p] = NoStat /\ tmp[p] = None
               /\ total_size_before[p] = 0 /\ total_size_after[p] = 0)

\* C7, its case: a process was refused the lock while another is at work.
C7_SecondRefused ==
    \E p, q \in Procs :
      /\ pc[p] \in Working /\ lock = p
      /\ pc[q] = "aborted"

\* C8: a run that finds the lock taken, or its configured compressor
\* missing, ends aborted; an aborted run has taken no snapshot, logged no
\* outcome, holds totals of 0 and no temporary file, and the step that
\* aborts it changes no file and no marker.
C8_AbortTouchesNothing ==
    /\ [](\A p \in Procs :
            pc[p] = "aborted"
            => /\ stat[p] = NoStat /\ idx[p] = 0
               /\ total_size_before[p] = 0 /\ total_size_after[p] = 0
               /\ tmp[p] = None)
    /\ [][\A p \in Procs :
            /\ (pc[p] = "new" /\ lock # "free" /\ pc'[p] # "new")
               => pc'[p] = "aborted"
            /\ (/\ pc[p] = "locked" /\ pc'[p] # "locked"
                /\ cfg.tool.compressor /\ ~cfg.tool.exists)
               => pc'[p] = "aborted"
            /\ (pc'[p] = "aborted" /\ pc[p] # "aborted")
               => (pc[p] \in {"new", "locked"} /\ fs' = fs /\ tmp' = tmp)
            /\ pc[p] = "aborted" => pc'[p] \in {"aborted", "exited"}]_vars

\* C8, its case: one run was aborted for the lock, the run that held the lock
\* for the missing compressor.
C8_BothAborts ==
    \E p, q \in Procs :
      /\ p # q
      /\ pc[p] = "aborted" /\ lock = p
      /\ cfg.tool.compressor /\ ~cfg.tool.exists
      /\ pc[q] = "aborted"

\* C9 (as claimed): no failure of reading or writing a marker ends the run
\* or changes what is logged and counted for the file.
C9_MarkerFailuresHarmless ==
    \A p \in Procs :
      pc[p] \notin {"get_optimized_at: ValueError",
                    "set_optimized_at: OSError", "skipping: xattr"}

\* C10 (as claimed): no exception raised while a candidate is processed
\* leaves run().
C10_Isolation ==
    \A p \in Procs : pc[p] \notin Uncaught

\* C11 (as claimed): when a candidate is logged improved, the marker stored
\* for the rewritten file reads as a time at or after the modification time
\* of the rewritten file, wherever in the second the clock stands.
C11_MarkerFresh ==
    [][\A p \in Procs :
         (InRange(p) /\ Logs(p, "improved"))
         => /\ fs'[Cand(p)].xkind = "text"
            /\ ParseMarker(fs'[Cand(p)].xsecs) >= fs'[Cand(p)].mtime]_vars

\* C12 (as claimed): a candidate taken in hand adds the size of its snapshot
\* to the before-total; and when the compressor then fails or returns a
\* payload that is no smaller, the step that settles the candidate leaves
\* the content, owner, group and mode of the file as they were, leaves the
\* file with a marker of the current time, and adds the original size to the
\* after-total and nothing to the before-total.
C12_FailedOrNoGain ==
    [][\A p \in Procs :
         /\ (pc[p] = "loop" /\ pc'[p] = "compress")
            => /\ total_size_before'[p] =
                      total_size_before[p] + fs[Cand(p)].size
               /\ total_size_after'[p] = total_size_after[p]
         /\ (pc[p] = "compress" /\ pc'[p] \notin {"compress", "write"})
            => /\ Whole(fs'[Cand(p)]) = Whole(fs[Cand(p)])
               /\ fs'[Cand(p)].xkind = "text"
               /\ fs'[Cand(p)].xsecs = FormatMarker(now)
               /\ total_size_after'[p] =
                      total_size_after[p] + fs[Cand(p)].size
               /\ total_size_before'[p] = total_size_before[p]]_vars

\* The marker of the file does not make a run without force skip it.
Retried(file) ==
    ~ShouldSkip(FALSE, OrZero(GetOptimizedAt(file)), StatOf(file).st_mtime)

\* The file carries a marker at or after its modification time.
FreshMarker(file) ==
    file.xkind = "text" /\ ParseMarker(file.xsecs) >= file.mtime

\* C13 (as claimed): when writing the payload, chown, chmod or the rename
\* fails, the file and its marker are as they were, the after-total grows by
\* the original size and the before-total not at all; and unless the file
\* carried a fresh marker already, the file as it is left is not skipped by a
\* run without force.
C13_WriterFailureRetried ==
    [][\A p \in Procs :
         (/\ pc[p] \in {"write", "chown", "chmod", "commit"}
          /\ pc'[p] \in WriterErrors)
         => /\ fs'[Cand(p)] = fs[Cand(p)]
            /\ total_size_after'[p] = total_size_after[p] + stat[p].st_size
            /\ total_size_before'[p] = total_size_before[p]
            /\ ~FreshMarker(fs[Cand(p)]) => Retried(fs'[Cand(p)])]_vars

\* C14 (as claimed): while a run lasts its totals never decrease; a skip adds
\* to neither; a candidate taken in hand adds its original size to the
\* before-total; the step that settles it adds to the after-total the new
\* size if the content at the path has been replaced and the original size
\* otherwise; and a run that ends reports an after-total no larger than its
\* before-total.
C14_Totals ==
    [][\A p \in Procs :
         /\ (pc[p] \in Active /\ pc'[p] \in Active \cup {"done"})
            => /\ total_size_before'[p] >= total_size_before[p]
               /\ total_size_after'[p] >= total_size_after[p]
         /\ (Logs(p, "skip") \/ (pc[p] = "skip" /\ pc'[p] # "skip"))
            => /\ total_size_before'[p] = total_size_before[p]
               /\ total_size_after'[p] = total_size_after[p]
         /\ (pc[p] = "loop" /\ pc'[p] = "compress")
            => total_size_before'[p] = total_size_before[p] + stat'[p].st_size
         /\ (pc[p] \in Working /\ pc'[p] \in Outcomes)
            => total_size_after'[p] = total_size_after[p] +
                 (IF pc[p] = "mark" THEN fs'[Cand(p)].size
                                    ELSE stat[p].st_size)
         /\ (pc'[p] = "done")
            => total_size_after'[p] <= total_size_before'[p]]_vars

\* C15 (as claimed): a candidate is logged skip only when force is off and
\* the file carries a marker that reads at or after the modification time of
\* the snapshot; a file without marker goes to the compressor whatever its
\* modification time.
C15_SkipNeedsMarker ==
    [][\A p \in Procs :
         (InRange(p) /\ Logs(p, "skip"))
         => /\ ~cfg.force
            /\ fs[Cand(p)].xkind = "text"
            /\ ParseMarker(fs[Cand(p)].xsecs) >= stat'[p].st_mtime]_vars

\* C16 (as claimed): with a compressor configured and no compressor_args, no
\* run reaches the traversal: no candidate is compressed, logged or marked.
C16_ArgsRequired ==
    \A p \in Procs :
      (cfg.tool.compressor /\ ~cfg.tool.args)
      => pc[p] \notin {"loop"} \cup Working \cup Outcomes

\* C17 (as claimed): a run that has started, and that finds every path of
\* the traversal still there when it takes the snapshot, reaches Done or
\* Aborted, whether its calls succeed or fail; it gets
\* there through the lock, the compressor check and the loop; and within a
\* run the position in the traversal only moves forward, by one path at the
\* end of each iteration, a candidate goes to the compressor only from the
\* loop head and is renamed over only from the writer.
C17_TerminatesSinglePass ==
    /\ \A p \in Procs :
         (pc[p] = "new")
         ~> (pc[p] \in {"done", "aborted", "stat: FileNotFoundError"})
    /\ [][\A p \in Procs :
            /\ (pc'[p] = "locked" /\ pc[p] # "locked") => pc[p] = "new"
            /\ (pc'[p] = "loop" /\ pc[p] # "loop")
               => \/ pc[p] = "locked" /\ idx'[p] = 1
                  \/ pc[p] \in Outcomes /\ idx'[p] = idx[p] + 1
            /\ (pc[p] \in Active /\ pc'[p] \in Active \ {"loop"})
               => idx'[p] = idx[p]
            /\ (pc'[p] = "compress" /\ pc[p] # "compress") => pc[p] = "loop"
            /\ (pc'[p] = "mark" /\ pc[p] # "mark") => pc[p] = "commit"
            /\ (pc'[p] = "done" /\ pc[p] # "done") => pc[p] = "loop"]_vars

\* C18 (as claimed): a path that carries a marker carries one after every
\* step, and a marker is created or changed only by the step that settles a
\* candidate after its compression.
C18_MarkerKept ==
    [][\A f \in Files :
         /\ fs[f].xkind # "absent" => fs'[f].xkind # "absent"
         /\ (/\ fs'[f].xkind # "absent"
             /\ <<fs'[f].xkind, fs'[f].xsecs>> # <<fs[f].xkind, fs[f].xsecs>>)
            => \E p \in Procs :
                 /\ InRange(p) /\ Cand(p) = f
                 /\ pc[p] \in {"compress", "mark"}
                 /\ pc'[p] \in {"failed", "nogain", "improved"}]_vars

\* The argument list the claim describes: the executable, then the arguments
\* of the template with the replacement field replaced by the path, whole.
RECURSIVE Substituted(_, _)
Substituted(words, image) ==
    IF words = <<>> THEN <<>>
    ELSE <<IF Head(words) = <<"{image}">> THEN image ELSE Head(words)>>
         \o Substituted(Tail(words), image)

\* C19 (as claimed): every argument list handed to the external compressor
\* is the executable followed by the arguments of the template, the path of
\* the candidate being exactly one of them, so that its length is the same
\* for a path with whitespace as for one without.
C19_OneArgumentPerPath ==
    \A p \in Procs :
      argv[p] # <<>>
      => /\ argv[p] = <<Compressor>>
                       \o Substituted(Split(Template), Text[Cand(p)])
         /\ Len(argv[p]) = 1 + Len(Split(Template))

====
